---- MODULE Spec2Model ----
(***************************************************************************)
(* Model of the Myra AI Assistant chat proxy                               *)
(* (src/src/voice_assistant/app.py).                                       *)
(*                                                                         *)
(* POST /chat validates the request body into a ChatMessage, returns a     *)
(* StreamingResponse over the async generator generate(), which opens one  *)
(* streaming request to Ollama, re-frames every backend line that carries  *)
(* a `response` key as one server-sent-event frame, stops at `done`, and   *)
(* turns every exception into one terminal error frame.                    *)
(*                                                                         *)
(* Every request r has its own generator; pc[r] is the generator's         *)
(* position.  The values yielded by the generator go to held[r] and are    *)
(* moved to frames[r] when StreamingResponse has written them to the       *)
(* client, which is also when the generator is resumed.                    *)
(***************************************************************************)
EXTENDS Integers, Sequences, FiniteSets, TLC

\* ---------------------------------------------------------------- bounds
\* number of request slots
NumReqs == 2
\* longest backend output (in lines) that is enumerated
MaxLines == 3

Reqs == 1..NumReqs

\* ----------------------------------------------------------- JSON values
\* A JSON value is a tagged record; JAbsent stands for a key that an object
\* does not have.
JAbsent == [t |-> "absent"]
JNull == [t |-> "null"]
JStr(s) == [t |-> "str", v |-> s]
JNum(n) == [t |-> "num", v |-> n]
JBool(b) == [t |-> "bool", v |-> b]
JList(elems) == [t |-> "list", v |-> elems]

\* request bodies: objects with (at most) the key `message`
Body(m) == [t |-> "obj", message |-> m]
\* backend output objects: (at most) the keys `response` and `done`
Obj(resp, done) == [t |-> "obj", response |-> resp, done |-> done]

\* the message texts that are enumerated
Msgs == {"Hi there", ""}

\* the request bodies that are enumerated: the object form with a textual
\* message, object forms with a non-textual or missing message, and bodies
\* that are not objects at all
Bodies ==
    {Body(JStr(m)) : m \in Msgs}
      \cup {Body(JNum(123)), Body(JNull), Body(JBool(TRUE)), Body(JAbsent),
            Body(Body(JStr("Hi there")))}
      \cup {JStr(m) : m \in Msgs}
      \cup {JNum(123), JNull}

\* ------------------------------------------------------------ validation
\* (variant: a numeric message is coerced to text instead of refused)
ChatMessageCoerce(data) ==
    IF data.message.t \in {"str", "num"}
      THEN [ok |-> TRUE, message |-> data.message.v, loc |-> <<>>]
      ELSE [ok |-> FALSE, message |-> "", loc |-> <<"message">>]

\* ChatMessage(**data): the field `message: str` is validated by
\* super().__init__ (a number, null, a boolean or an object is not a valid
\* string and is not coerced; a missing key is an error as well); the
\* isinstance check of line 114 then holds for every value that got through.
ChatMessage(data) ==
    IF data.message.t = "str"
      THEN [ok |-> TRUE, message |-> data.message.v, loc |-> <<>>]
      ELSE [ok |-> FALSE, message |-> "", loc |-> <<"message">>]

\* ChatMessage.validate(v), the hook yielded by __get_validators__: a str is
\* wrapped, a dict is unpacked, anything else is a ValueError.
validate(v) ==
    IF v.t = "str" THEN ChatMessage(Body(v))
    ELSE IF v.t = "obj" THEN ChatMessage(v)
    ELSE [ok |-> FALSE, message |-> "", loc |-> <<>>]

\* The binding of the body to the parameter `chat_message: ChatMessage` of
\* chat().  The tests fix the validation layer: ChatMessage(message=123) must
\* fail with "Input should be a valid string" and {"message": 123} must give
\* 422 (test_app.py:46-59).  In that layer a BaseModel parameter is validated
\* from the model's fields: the body has to be a JSON object, whose keys are
\* passed to ChatMessage(**body).  __get_validators__ is not consulted for a
\* BaseModel subclass, so validate() is not on this path.
BindBody(body) ==
    IF body.t = "obj"
      THEN LET res == ChatMessage(body)
           IN  [ok |-> res.ok, message |-> res.message,
                loc |-> <<"body">> \o res.loc]
      ELSE [ok |-> FALSE, message |-> "", loc |-> <<"body">>]

\* ------------------------------------------------------- backend output
L_EMPTY == ""
L_BAD == "not json"
L_HELLO == "{\"response\": \"Hello\", \"done\": false}"
L_WORLD == "{\"response\": \" world\", \"done\": false}"
L_BANG == "{\"response\": \"!\", \"done\": true}"
L_DONE == "{\"done\": true}"
L_NODONE == "{\"response\": \"x\"}"
L_NUM == "42"
L_STR == "\"no response\""
L_NULL == "null"
L_LIST == "[]"

\* the backend lines that are enumerated
Lines == {L_EMPTY, L_BAD, L_HELLO, L_WORLD, L_BANG, L_DONE, L_NODONE,
          L_NUM, L_STR, L_NULL, L_LIST}

\* json.loads(line): the parsed value, or JSONDecodeError
JSONDecodeError == [t |-> "JSONDecodeError"]

json_loads(line) ==
    CASE line = L_HELLO -> Obj(JStr("Hello"), JBool(FALSE))
      [] line = L_WORLD -> Obj(JStr(" world"), JBool(FALSE))
      [] line = L_BANG -> Obj(JStr("!"), JBool(TRUE))
      [] line = L_DONE -> Obj(JAbsent, JBool(TRUE))
      [] line = L_NODONE -> Obj(JStr("x"), JAbsent)
      [] line = L_NUM -> JNum(42)
      [] line = L_STR -> JStr("no response")
      [] line = L_NULL -> JNull
      [] line = L_LIST -> JList(<<>>)
      [] OTHER -> JSONDecodeError

\* `"response" in data` (line 165): key test on a dict, substring test on a
\* str, element test on a list, TypeError on a value that is no container
\* (a number, null).
StrHasResponse(s) == s \in {"no response"}

HasResponse(data) ==
    CASE data.t = "obj" -> IF data.response # JAbsent THEN "yes" ELSE "no"
      [] data.t = "str" -> IF StrHasResponse(data.v) THEN "yes" ELSE "no"
      [] data.t = "list" ->
           IF \E i \in 1..Len(data.v) : data.v[i] = JStr("response")
             THEN "yes" ELSE "no"
      [] OTHER -> "TypeError"

\* (variant: `if "done" in data: break`, the value of the key is not looked at)
GetDoneKeyPresent(data) ==
    CASE data.t = "obj" -> IF data.done # JAbsent THEN "true" ELSE "false"
      [] OTHER -> "AttributeError"

\* (variant: the `break` is missing, a true `done` does not stop the loop)
GetDoneNever(data) ==
    CASE data.t = "obj" -> "false"
      [] OTHER -> "AttributeError"

\* (variant: `isinstance(data, dict) and data.get("done", False)`, a value
\* that is no dict is taken as not done)
GetDoneLenient(data) ==
    CASE data.t = "obj" ->
           IF data.done # JAbsent /\ data.done.t = "bool" /\ data.done.v
             THEN "true" ELSE "false"
      [] OTHER -> "false"

\* `data.get("done", False)` (line 170), as the truth value the `if` sees:
\* only a dict has .get, anything else is an AttributeError.
GetDone(data) ==
    CASE data.t = "obj" ->
           IF data.done # JAbsent /\ data.done.t = "bool" /\ data.done.v
             THEN "true" ELSE "false"
      [] OTHER -> "AttributeError"

\* ---------------------------------------------------------------- frames
\* f"data: {json.dumps(data)}\n\n": one SSE frame whose payload is data
Frame(payload) == [data |-> payload]

\* the payload {'error': f'<prefix>: {e!s}'} of the three except branches
ErrorPayload(prefix) == [t |-> "obj", error |-> prefix]

IsErrorFrame(f) == "error" \in DOMAIN f.data
IsTokenFrame(f) == ~IsErrorFrame(f)

\* httpx exception classes that can reach the except chain: RequestError
\* covers the transport errors, timeouts included; HTTPStatusError comes from
\* raise_for_status only.
RequestErrors == {"ConnectError", "ConnectTimeout", "ReadTimeout", "ReadError"}
ConnectFaults == {"ConnectError", "ConnectTimeout"}
ReadFaults == {"ReadTimeout", "ReadError"}

\* (variant: the second branch catches httpx.NetworkError, which leaves the
\* timeouts to the last branch)
ExceptFrameNetworkOnly(exc) ==
    IF exc = "HTTPStatusError"
      THEN Frame(ErrorPayload("Error communicating with Ollama"))
    ELSE IF exc \in {"ConnectError", "ReadError"}
      THEN Frame(ErrorPayload("Error connecting to Ollama"))
    ELSE Frame(ErrorPayload("An unexpected error occurred"))

\* the except chain of generate() (lines 174-182): first matching branch
ExceptFrame(exc) ==
    IF exc = "HTTPStatusError"
      THEN Frame(ErrorPayload("Error communicating with Ollama"))
    ELSE IF exc \in RequestErrors
      THEN Frame(ErrorPayload("Error connecting to Ollama"))
    ELSE Frame(ErrorPayload("An unexpected error occurred"))

\* (variant: the prompt is left out of the generation request)
GenerateRequestNoPrompt(msg) ==
    [model |-> "llama3.2", prompt |-> "", stream |-> TRUE]

\* the JSON body of the generation request (lines 153-157)
GenerateRequest(msg) ==
    [model |-> "llama3.2", prompt |-> msg, stream |-> TRUE]

\* the backend statuses that are enumerated
Statuses == {200, 404, 500}

\* (variant: the status of the response is not checked)
StatusUnchecked(st) == FALSE

\* response.raise_for_status() (line 160): 4xx and 5xx raise
raise_for_status(st) == st >= 400

\* every backend output of at most MaxLines lines
Scripts == UNION {[1..n -> Lines] : n \in 0..MaxLines}

\* ------------------------------------------------- one pass of the loop
Outcome(kind, data, exc) == [kind |-> kind, data |-> data, exc |-> exc]

\* lines 170-171, reached after the yield or when there was nothing to
\* yield: break on a true `done`, else go on with the next line
CheckDone(data) ==
    CASE GetDone(data) = "AttributeError" ->
           Outcome("raise", data, "AttributeError")
      [] GetDone(data) = "true" -> Outcome("break", data, "")
      [] OTHER -> Outcome("continue", data, "")

\* (variant: a line that json.loads rejects is not caught in the loop and
\* ends the try block)
ProcessLineStrict(line) ==
    IF line = L_EMPTY THEN Outcome("skip", JAbsent, "")
    ELSE LET data == json_loads(line)
         IN  CASE data = JSONDecodeError ->
                    Outcome("raise", JAbsent, "JSONDecodeError")
               [] HasResponse(data) = "TypeError" ->
                    Outcome("raise", data, "TypeError")
               [] HasResponse(data) = "yes" -> Outcome("yield", data, "")
               [] OTHER -> CheckDone(data)

\* (variant: an empty line is taken for the end of the output)
ProcessLineStopOnEmpty(line) ==
    IF line = L_EMPTY THEN Outcome("break", JAbsent, "")
    ELSE LET data == json_loads(line)
         IN  CASE data = JSONDecodeError -> Outcome("skip", JAbsent, "")
               [] HasResponse(data) = "TypeError" ->
                    Outcome("raise", data, "TypeError")
               [] HasResponse(data) = "yes" -> Outcome("yield", data, "")
               [] OTHER -> CheckDone(data)

\* lines 162-169 for one line of aiter_lines(): an empty line and a line
\* that json.loads rejects are passed over; a parsed value with `response`
\* is yielded; anything else goes straight to the `done` test.
ProcessLine(line) ==
    IF line = L_EMPTY THEN Outcome("skip", JAbsent, "")
    ELSE LET data == json_loads(line)
         IN  CASE data = JSONDecodeError -> Outcome("skip", JAbsent, "")
               [] HasResponse(data) = "TypeError" ->
                    Outcome("raise", data, "TypeError")
               [] HasResponse(data) = "yes" -> Outcome("yield", data, "")
               [] OTHER -> CheckDone(data)

\* (variant: frames are collected instead of yielded one by one, the loop
\* goes on to the next line with the frame still unwritten)
NextPcBuffered(out) ==
    CASE out.kind = "yield" -> "reading"
      [] out.kind = "raise" -> "yield_error"
      [] out.kind = "break" -> "closed"
      [] OTHER -> "reading"

\* where the generator is after a pass with the given outcome: suspended at
\* the yield of line 169, suspended at the yield of an except branch, back
\* at the head of the loop, or finished
NextPc(out) ==
    CASE out.kind = "yield" -> "yield_token"
      [] out.kind = "raise" -> "yield_error"
      [] out.kind = "break" -> "closed"
      [] OTHER -> "reading"

\* (variant: the connection is not scoped, nothing closes it)
ReleaseLeak(c) == c

\* leaving `async with client.stream(...)` and `async with AsyncClient()`
\* (lines 148-159): an open backend connection is closed
Release(c) == IF c = "open" THEN "released" ELSE c

\* (variant: a transport error is logged only, its branch yields nothing)
HandleSilent(exc) ==
    IF exc \in RequestErrors THEN <<>> ELSE <<ExceptFrame(exc)>>

\* what an except branch yields (lines 176, 179, 182)
Handle(exc) == <<ExceptFrame(exc)>>

\* ----------------------------------------------------------------- state
VARIABLES
    pc,            \* position of request r: idle, rejected, started,
                   \* reading, yield_token, yield_error, closed, cancelled
    body,          \* the JSON body of the POST
    http,          \* status, media type and error location of the response
    message,       \* chat_message.message
    sent,          \* the generation requests sent to the backend
    conn,          \* the backend connection: none, open, released
    status,        \* the backend's HTTP status
    script,        \* the lines of the backend's response body
    pos,           \* how many of them aiter_lines() has delivered
    cur,           \* `data` of the pass suspended at the yield
    held,          \* frames yielded by generate() and not yet written
    frames,        \* frames written to the client
    fault,         \* the exception that ended the try block, if any
    disconnected,  \* the client went away before the stream ended
    backend,       \* the state Ollama is in: reachable, unreachable, failing
    served         \* the last answer to GET / and to GET /api/health, with
                   \* the state the backend was in when it was given

vars == <<pc, body, http, message, sent, conn, status, script, pos, cur,
          held, frames, fault, disconnected, backend, served>>

\* the variables of the GET endpoints and of the backend's availability,
\* which no step of POST /chat writes
others == <<backend, served>>

BackendStates == {"reachable", "unreachable", "failing"}
Paths == {"/", "/api/health"}
NotServed == [status |-> 0]

NoResponse == [status |-> 0, media |-> "", loc |-> <<>>]

Init ==
    /\ pc = [r \in Reqs |-> "idle"]
    /\ body = [r \in Reqs |-> JAbsent]
    /\ http = [r \in Reqs |-> NoResponse]
    /\ message = [r \in Reqs |-> ""]
    /\ sent = [r \in Reqs |-> <<>>]
    /\ conn = [r \in Reqs |-> "none"]
    /\ status = [r \in Reqs |-> 0]
    /\ script = [r \in Reqs |-> <<>>]
    /\ pos = [r \in Reqs |-> 0]
    /\ cur = [r \in Reqs |-> JAbsent]
    /\ held = [r \in Reqs |-> <<>>]
    /\ frames = [r \in Reqs |-> <<>>]
    /\ fault = [r \in Reqs |-> "none"]
    /\ disconnected = [r \in Reqs |-> FALSE]
    /\ backend = "reachable"
    /\ served = [p \in Paths |-> NotServed]

\* --------------------------------------------------------------- actions
\* (variant: media_type is not passed, the response has no event-stream type)
StreamingResponseUntyped == [status |-> 200, media |-> "", loc |-> <<>>]

\* StreamingResponse(generate(), media_type="text/event-stream") (line 184):
\* status 200 and the media type are fixed when chat() returns, before the
\* first line of generate() runs
StreamingResponse ==
    [status |-> 200, media |-> "text/event-stream", loc |-> <<>>]

\* POST /chat with a body b (lines 119-120, 184): the body is bound to
\* chat_message; a failure is the 422 response, a success returns the
\* StreamingResponse (200, text/event-stream) around a generator that has
\* not run yet.
ChatWith(r, b) ==
    /\ body' = [body EXCEPT ![r] = b]
    /\ LET res == BindBody(b)
       IN  IF res.ok
             THEN /\ message' = [message EXCEPT ![r] = res.message]
                  /\ http' = [http EXCEPT ![r] = StreamingResponse]
                  /\ pc' = [pc EXCEPT ![r] = "started"]
             ELSE /\ message' = message
                  /\ http' = [http EXCEPT ![r] =
                                [status |-> 422, media |-> "application/json",
                                 loc |-> res.loc]]
                  /\ pc' = [pc EXCEPT ![r] = "rejected"]
    /\ UNCHANGED <<others, sent, conn, status, script, pos, cur, held, frames, fault,
                   disconnected>>

Chat(r) ==
    /\ pc[r] = "idle"
    /\ \E b \in Bodies : ChatWith(r, b)

\* (variant: a failed connect is tried again instead of reported)
RaiseRetry(r, exc) ==
    IF exc \in ConnectFaults
      THEN /\ fault' = [fault EXCEPT ![r] = exc]
           /\ pc' = [pc EXCEPT ![r] = "started"]
           /\ UNCHANGED <<conn, held>>
      ELSE /\ conn' = [conn EXCEPT ![r] = Release(@)]
           /\ fault' = [fault EXCEPT ![r] = exc]
           /\ held' = [held EXCEPT ![r] = @ \o Handle(exc)]
           /\ pc' = [pc EXCEPT ![r] = "yield_error"]

\* an exception exc leaves the try block (lines 174-182): the `async with`
\* blocks are left, the matching except branch yields its frame
Raise(r, exc) ==
    /\ conn' = [conn EXCEPT ![r] = Release(@)]
    /\ fault' = [fault EXCEPT ![r] = exc]
    /\ held' = [held EXCEPT ![r] = @ \o Handle(exc)]
    /\ pc' = [pc EXCEPT ![r] = "yield_error"]

\* first run of generate() up to the loop (lines 147-160), the request
\* cannot be sent or is not answered in time
ConnectFail(r) ==
    /\ pc[r] = "started"
    /\ sent' = [sent EXCEPT ![r] = Append(@, GenerateRequest(message[r]))]
    /\ \E exc \in ConnectFaults : Raise(r, exc)
    /\ UNCHANGED <<others, body, http, message, status, script, pos, cur, frames,
                   disconnected>>

\* first run of generate() up to the loop (lines 147-160), the backend
\* answers with status st and the body lines sc; raise_for_status() lets a
\* success status through to the loop
ConnectWith(r, st, sc) ==
    /\ sent' = [sent EXCEPT ![r] = Append(@, GenerateRequest(message[r]))]
    /\ status' = [status EXCEPT ![r] = st]
    /\ script' = [script EXCEPT ![r] = sc]
    /\ IF raise_for_status(st)
         THEN /\ conn' = [conn EXCEPT ![r] = Release("open")]
              /\ fault' = [fault EXCEPT ![r] = "HTTPStatusError"]
              /\ held' = [held EXCEPT ![r] = @ \o Handle("HTTPStatusError")]
              /\ pc' = [pc EXCEPT ![r] = "yield_error"]
         ELSE /\ conn' = [conn EXCEPT ![r] = "open"]
              /\ pc' = [pc EXCEPT ![r] = "reading"]
              /\ UNCHANGED <<fault, held>>
    /\ UNCHANGED <<others, body, http, message, pos, cur, frames, disconnected>>

\* scripts: the backend outputs that are enumerated
Connect(r, scripts) ==
    /\ pc[r] = "started"
    /\ \E st \in Statuses, sc \in scripts : ConnectWith(r, st, sc)

\* the effect of one pass with outcome out on request r
Apply(r, out) ==
    /\ cur' = [cur EXCEPT ![r] = out.data]
    /\ CASE out.kind = "raise" -> Raise(r, out.exc)
         [] out.kind = "yield" ->
              /\ held' = [held EXCEPT ![r] = Append(@, Frame(out.data))]
              /\ pc' = [pc EXCEPT ![r] = NextPc(out)]
              /\ UNCHANGED <<conn, fault>>
         [] out.kind = "break" ->
              /\ conn' = [conn EXCEPT ![r] = Release(@)]
              /\ pc' = [pc EXCEPT ![r] = NextPc(out)]
              /\ UNCHANGED <<held, fault>>
         [] OTHER ->
              /\ pc' = [pc EXCEPT ![r] = NextPc(out)]
              /\ UNCHANGED <<conn, held, fault>>

\* aiter_lines() delivers the next line and the loop body runs on it
\* (lines 161-173)
ReadLine(r) ==
    /\ pc[r] = "reading"
    /\ pos[r] < Len(script[r])
    /\ pos' = [pos EXCEPT ![r] = @ + 1]
    /\ Apply(r, ProcessLine(script[r][pos[r] + 1]))
    /\ UNCHANGED <<others, body, http, message, sent, status, script, frames,
                   disconnected>>

\* (variant: an output that ends without a true `done` is reported as an
\* incomplete answer)
EndOfLinesIncomplete(r) ==
    /\ pc[r] = "reading"
    /\ pos[r] = Len(script[r])
    /\ Raise(r, "RuntimeError")
    /\ UNCHANGED <<others, body, http, message, sent, status, script, pos,
                   cur, frames, disconnected>>

\* aiter_lines() is exhausted: the loop and both `async with` blocks end,
\* the generator returns (line 161)
EndOfLines(r) ==
    /\ pc[r] = "reading"
    /\ pos[r] = Len(script[r])
    /\ conn' = [conn EXCEPT ![r] = Release(@)]
    /\ pc' = [pc EXCEPT ![r] = "closed"]
    /\ UNCHANGED <<others, body, http, message, sent, status, script, pos, cur, held,
                   frames, fault, disconnected>>

\* waiting for the next line fails (line 161): read timeout, broken
\* connection
ReadFail(r) ==
    /\ pc[r] = "reading"
    /\ \E exc \in ReadFaults : Raise(r, exc)
    /\ UNCHANGED <<others, body, http, message, sent, status, script, pos, cur,
                   frames, disconnected>>

\* StreamingResponse writes the yielded token frame and resumes the
\* generator after the yield of line 169, which goes on to lines 170-171
SendToken(r) ==
    /\ pc[r] = "yield_token"
    /\ frames' = [frames EXCEPT ![r] = @ \o held[r]]
    /\ LET out == CheckDone(cur[r])
       IN  CASE out.kind = "raise" ->
                  /\ conn' = [conn EXCEPT ![r] = Release(@)]
                  /\ fault' = [fault EXCEPT ![r] = out.exc]
                  /\ held' = [held EXCEPT ![r] = Handle(out.exc)]
                  /\ pc' = [pc EXCEPT ![r] = "yield_error"]
             [] out.kind = "break" ->
                  /\ conn' = [conn EXCEPT ![r] = Release(@)]
                  /\ held' = [held EXCEPT ![r] = <<>>]
                  /\ pc' = [pc EXCEPT ![r] = NextPc(out)]
                  /\ UNCHANGED fault
             [] OTHER ->
                  /\ held' = [held EXCEPT ![r] = <<>>]
                  /\ pc' = [pc EXCEPT ![r] = NextPc(out)]
                  /\ UNCHANGED <<conn, fault>>
    /\ UNCHANGED <<others, body, http, message, sent, status, script, pos, cur,
                   disconnected>>

\* StreamingResponse writes the yielded error frame and resumes the
\* generator, which returns: the stream ends (lines 176, 179, 182)
SendError(r) ==
    /\ pc[r] = "yield_error"
    /\ frames' = [frames EXCEPT ![r] = @ \o held[r]]
    /\ held' = [held EXCEPT ![r] = <<>>]
    /\ pc' = [pc EXCEPT ![r] = "closed"]
    /\ UNCHANGED <<others, body, http, message, sent, conn, status, script, pos, cur,
                   fault, disconnected>>

\* (variant: the streams share one client, closing it for r cancels every
\* stream that is open)
DisconnectShared(r) ==
    LET open == {q \in Reqs :
                   pc[q] \in {"started", "reading", "yield_token",
                              "yield_error"}}
    IN  /\ r \in open
        /\ disconnected' = [q \in Reqs |-> disconnected[q] \/ q \in open]
        /\ conn' = [q \in Reqs |-> IF q \in open THEN Release(conn[q])
                                                ELSE conn[q]]
        /\ held' = [q \in Reqs |-> IF q \in open THEN <<>> ELSE held[q]]
        /\ pc' = [q \in Reqs |-> IF q \in open THEN "cancelled" ELSE pc[q]]
        /\ UNCHANGED <<others, body, http, message, sent, status, script, pos, cur,
                       frames, fault>>

\* the client goes away while the stream is open: the response task is
\* cancelled and the generator is closed at its suspension point, which
\* unwinds the `async with` blocks; CancelledError and GeneratorExit are not
\* Exceptions, so no except branch runs and nothing more is written
Disconnect(r) ==
    /\ pc[r] \in {"started", "reading", "yield_token", "yield_error"}
    /\ disconnected' = [disconnected EXCEPT ![r] = TRUE]
    /\ conn' = [conn EXCEPT ![r] = Release(@)]
    /\ held' = [held EXCEPT ![r] = <<>>]
    /\ pc' = [pc EXCEPT ![r] = "cancelled"]
    /\ UNCHANGED <<others, body, http, message, sent, status, script, pos, cur,
                   frames, fault>>

\* the steps of request r
Step(r) ==
    \/ Chat(r)
    \/ ConnectFail(r)
    \/ Connect(r, Scripts)
    \/ ReadLine(r)
    \/ EndOfLines(r)
    \/ ReadFail(r)
    \/ SendToken(r)
    \/ SendError(r)
    \/ Disconnect(r)

\* one client: a single request is followed from arrival to the end of its
\* stream
Next == Step(1)

Spec == Init /\ [][Next]_vars

\* one client under a running event loop: a step of the request's task that
\* can be taken is taken (the backend's output is finite, and a read that
\* gets nothing is ended by the read timeout). The backend's lines are drawn
\* from one line per branch of the loop body: empty, malformed, a token with
\* `done` false, `done` true, no `done` key, not an object.
LiveLines == {L_EMPTY, L_BAD, L_HELLO, L_DONE, L_NODONE, L_NUM}
LiveScripts == UNION {[1..n -> LiveLines] : n \in 0..MaxLines}

StepLive(r) ==
    \/ Chat(r)
    \/ ConnectFail(r)
    \/ Connect(r, LiveScripts)
    \/ ReadLine(r)
    \/ EndOfLines(r)
    \/ ReadFail(r)
    \/ SendToken(r)
    \/ SendError(r)
    \/ Disconnect(r)

NextLive == StepLive(1)

SpecLive == Init /\ [][NextLive]_vars /\ WF_vars(NextLive)

\* several clients: every request slot is used and the steps of the requests
\* interleave in any order, as the tasks of the event loop do at each await
\* and each yield; the bodies and backend outputs are drawn from a few
\* representative ones
ConcBodies == {Body(JStr("Hi there")), Body(JNum(123))}
ConcScripts == {<<>>, <<L_HELLO, L_BANG, L_WORLD>>, <<L_BAD, L_WORLD, L_NUM>>}

ChatConc(r) == Chat(r) /\ body'[r] \in ConcBodies

StepConc(r) ==
    \/ ChatConc(r)
    \/ ConnectFail(r)
    \/ Connect(r, ConcScripts)
    \/ ReadLine(r)
    \/ EndOfLines(r)
    \/ ReadFail(r)
    \/ SendToken(r)
    \/ SendError(r)
    \/ Disconnect(r)

NextConc == \E r \in Reqs : StepConc(r)

SpecConc == Init /\ [][NextConc]_vars

\* ------------------------------------------- the same output, cleaned
\* a line the loop passes over: an empty one, or one json.loads rejects
IsJunk(line) == line = L_EMPTY \/ json_loads(line) = JSONDecodeError
KeepLine(line) == ~IsJunk(line)
Filtered(lines) == SelectSeq(lines, KeepLine)

\* the message of the two requests that are compared
PairBody == Body(JStr("Hi there"))

\* two requests one after the other, neither disturbed by a transport fault
\* or a disconnect: request 1 gets any backend output with status 200, and
\* once its stream has ended request 2 gets the same output without the
\* empty and the non-JSON lines
ChatPair(r) ==
    /\ r = 1 \/ pc[1] = "closed"
    /\ Chat(r)
    /\ body'[r] = PairBody

ConnectAny == Connect(1, Scripts) /\ status'[1] = 200

ConnectFiltered ==
    /\ pc[1] = "closed"
    /\ Connect(2, {Filtered(script[1])})
    /\ status'[2] = 200

NextPair ==
    \/ \E r \in {1, 2} : ChatPair(r)
    \/ ConnectAny
    \/ ConnectFiltered
    \/ \E r \in {1, 2} : ReadLine(r)
    \/ \E r \in {1, 2} : EndOfLines(r)
    \/ \E r \in {1, 2} : SendToken(r)
    \/ \E r \in {1, 2} : SendError(r)

SpecPair == Init /\ [][NextPair]_vars

\* ------------------------------------------------- the GET endpoints
\* (variant: the health check asks the backend and reports what it finds)
HealthPayloadProbing ==
    IF backend = "reachable"
      THEN [status |-> 200, media |-> "application/json",
            body |-> [status |-> "healthy",
                      message |-> "Myra AI Assistant is running"],
            backend_requests |-> 1]
      ELSE [status |-> 503, media |-> "application/json",
            body |-> [status |-> "unhealthy",
                      message |-> "Ollama is not available"],
            backend_requests |-> 1]

\* health_check() (lines 200-210): a fixed dict, returned with status 200;
\* backend_requests counts the requests the handler makes to Ollama
HealthPayload ==
    [status |-> 200, media |-> "application/json",
     body |-> [status |-> "healthy",
               message |-> "Myra AI Assistant is running"],
     backend_requests |-> 0]

\* read_root() (lines 187-197): the file static/index.html of the mounted
\* static directory, as text/html
RootPayload ==
    [status |-> 200, media |-> "text/html; charset=utf-8",
     body |-> "static/index.html", backend_requests |-> 0]

\* everything POST /chat owns
chatVars == <<pc, body, http, message, sent, conn, status, script, pos, cur,
              held, frames, fault, disconnected>>

\* GET /api/health
health_check ==
    /\ served' = [served EXCEPT !["/api/health"] =
                    [resp |-> HealthPayload, at |-> backend]]
    /\ UNCHANGED <<chatVars, backend>>

\* GET /
read_root ==
    /\ served' = [served EXCEPT !["/"] =
                    [resp |-> RootPayload, at |-> backend]]
    /\ UNCHANGED <<chatVars, backend>>

\* Ollama is stopped, started, or starts to answer with failure statuses
BackendChange ==
    /\ \E b \in BackendStates \ {backend} : backend' = b
    /\ UNCHANGED <<chatVars, served>>

\* the steps of POST /chat against a backend in the given state: an
\* unreachable backend refuses the connection, a failing one answers with a
\* failure status, a reachable one with 200
StepAgainstBackend(r) ==
    \/ ChatConc(r)
    \/ backend = "unreachable" /\ ConnectFail(r)
    \/ /\ backend # "unreachable"
       /\ Connect(r, ConcScripts)
       /\ status'[r] >= 400 <=> backend = "failing"
    \/ ReadLine(r)
    \/ EndOfLines(r)
    \/ ReadFail(r)
    \/ SendToken(r)
    \/ SendError(r)
    \/ Disconnect(r)

\* one chat client, the two GET endpoints and a backend that comes and goes
NextHealth ==
    \/ StepAgainstBackend(1)
    \/ health_check
    \/ read_root
    \/ BackendChange

SpecHealth == Init /\ [][NextHealth]_vars

\* ================================================================ claims
Last(sq) == sq[Len(sq)]
Range(sq) == {sq[i] : i \in 1..Len(sq)}
IsPrefix(a, b) == Len(a) <= Len(b) /\ SubSeq(b, 1, Len(a)) = a
TokenFrames(fs) == SelectSeq(fs, IsTokenFrame)
ErrorFrames(fs) == SelectSeq(fs, IsErrorFrame)

\* what a line is, read off its text
IsObject(line) == line # L_EMPTY /\ json_loads(line).t = "obj"
IsMalformed(line) == line # L_EMPTY /\ json_loads(line) = JSONDecodeError
CarriesResponse(line) == IsObject(line) /\ json_loads(line).response # JAbsent
DoneTrue(line) == IsObject(line) /\ json_loads(line).done = JBool(TRUE)
DoneFalse(line) == IsObject(line) /\ json_loads(line).done = JBool(FALSE)

\* one frame per line, in order
FrameEach(lines) == [i \in 1..Len(lines) |-> Frame(json_loads(lines[i]))]

\* the stream of r ran to its end: no transport fault hit it and the client
\* stayed
Undisturbed(r) == ~disconnected[r] /\ fault[r] \notin RequestErrors

\* ------------------------------------------------------------------- C1
\* the backend answered r with a success status and n >= 1 object lines that
\* all carry `response`, only the last one with a true `done`
C1_Case(r) ==
    /\ status[r] = 200
    /\ Len(script[r]) >= 1
    /\ \A i \in 1..Len(script[r]) :
         /\ CarriesResponse(script[r][i])
         /\ DoneTrue(script[r][i]) <=> i = Len(script[r])

\* C1: for a success status and n >= 1 well-formed lines with `response`,
\* only the last with `done` true, the frames written are at every moment a
\* prefix of one token frame per backend line in the backend's order; when
\* the stream has ended undisturbed they are exactly these n frames (so no
\* error frame), and the stream ends as soon as the n-th frame is written.
C1_TokenPerLine ==
    \A r \in Reqs :
      C1_Case(r) =>
        /\ Undisturbed(r) => IsPrefix(frames[r], FrameEach(script[r]))
        /\ (pc[r] = "closed" /\ Undisturbed(r)) =>
              frames[r] = FrameEach(script[r])
        /\ (Undisturbed(r) /\ Len(frames[r]) = Len(script[r])) =>
              pc[r] = "closed"

C1_Witness ==
    \E r \in Reqs :
      /\ script[r] = <<L_HELLO, L_WORLD, L_BANG>>
      /\ C1_Case(r)
      /\ pc[r] = "closed"
      /\ Len(frames[r]) = 3
      /\ Undisturbed(r)

\* ------------------------------------------------------------------- C2
\* C2: a request whose body is an object with a `message` that is neither a
\* string nor an object (a number, null, a boolean) is answered with 422,
\* the error location names `message`, and no generation request is ever
\* sent to the backend for it.
C2_NonTextRejected ==
    \A r \in Reqs :
      (pc[r] # "idle" /\ body[r].t = "obj"
         /\ body[r].message.t \in {"num", "null", "bool"}) =>
        /\ pc[r] = "rejected"
        /\ http[r].status = 422
        /\ "message" \in Range(http[r].loc)
        /\ sent[r] = <<>>
        /\ conn[r] = "none"

C2_Witness ==
    \E r \in Reqs :
      /\ body[r] = Body(JNum(123))
      /\ pc[r] = "rejected"
      /\ http[r].status = 422

\* ------------------------------------------------------------------- C3
\* C3: when the backend answers with a failure status, no line of its body
\* is read, no token frame is ever yielded or written, and a stream that
\* ended with the client still there consists of exactly one error frame;
\* the stream ends as soon as that frame is written.
C3_FailureStatus ==
    \A r \in Reqs :
      status[r] >= 400 =>
        /\ pos[r] = 0
        /\ TokenFrames(frames[r] \o held[r]) = <<>>
        /\ (pc[r] = "closed" /\ ~disconnected[r]) =>
              (Len(frames[r]) = 1 /\ IsErrorFrame(frames[r][1]))
        /\ Len(frames[r]) >= 1 => pc[r] = "closed"

C3_Witness ==
    \E r \in Reqs :
      /\ status[r] = 500
      /\ Len(script[r]) >= 1
      /\ pc[r] = "closed"
      /\ Len(frames[r]) = 1
      /\ IsErrorFrame(frames[r][1])

\* ------------------------------------------------------------------- C4
\* C4: in every stream, the frames yielded so far hold at most one error
\* frame; a written error frame is the last frame and the stream is closed
\* after it; and once an exception has ended the try block (at the connect,
\* at the status check, at a read, in the loop body, before or after any
\* number of token frames) the error frame is either waiting to be written,
\* or is the last frame written, or the client has gone.
C4_OneTerminalError ==
    \A r \in Reqs :
      /\ Len(ErrorFrames(frames[r] \o held[r])) <= 1
      /\ \A i \in 1..Len(frames[r]) :
           IsErrorFrame(frames[r][i]) =>
             (i = Len(frames[r]) /\ pc[r] = "closed")
      /\ fault[r] # "none" =>
           \/ pc[r] = "cancelled"
           \/ /\ pc[r] = "yield_error"
              /\ Len(held[r]) = 1
              /\ IsErrorFrame(held[r][1])
           \/ /\ pc[r] = "closed"
              /\ Len(frames[r]) >= 1
              /\ IsErrorFrame(Last(frames[r]))

C4_Witness ==
    \E r \in Reqs :
      /\ fault[r] \in ReadFaults
      /\ pc[r] = "closed"
      /\ Len(frames[r]) = 3
      /\ IsTokenFrame(frames[r][1])
      /\ IsTokenFrame(frames[r][2])
      /\ IsErrorFrame(frames[r][3])

\* ------------------------------------------------------------------- C5
\* the backend answered r with a success status and exactly three lines: a
\* malformed one, an object line with `done` false, an object line with
\* `done` true
C5_Case(r) ==
    /\ status[r] = 200
    /\ Len(script[r]) = 3
    /\ IsMalformed(script[r][1])
    /\ DoneFalse(script[r][2])
    /\ DoneTrue(script[r][3])

\* C5 as claimed: malformed, `done` false, `done` true gives exactly one
\* token frame and no error frame.
C5_Claimed ==
    \A r \in Reqs :
      (C5_Case(r) /\ pc[r] = "closed" /\ Undisturbed(r)) =>
        /\ Len(TokenFrames(frames[r])) = 1
        /\ ErrorFrames(frames[r]) = <<>>

\* C5, amended: malformed, then an object line with `response` and `done`
\* false, then an object line with `done` true gives no error frame and the
\* frame of the second line, followed by the frame of the third line exactly
\* when that line carries `response` itself: one token frame when the `done`
\* line has no `response`, two when it has.
C5_Amended ==
    \A r \in Reqs :
      (C5_Case(r) /\ CarriesResponse(script[r][2])
         /\ pc[r] = "closed" /\ Undisturbed(r)) =>
        frames[r] =
          <<Frame(json_loads(script[r][2]))>>
            \o (IF CarriesResponse(script[r][3])
                  THEN <<Frame(json_loads(script[r][3]))>>
                  ELSE <<>>)

C5_Witness ==
    \E r \in Reqs :
      /\ script[r] = <<L_BAD, L_HELLO, L_DONE>>
      /\ C5_Case(r)
      /\ pc[r] = "closed"
      /\ Undisturbed(r)
      /\ Len(frames[r]) = 1

\* ------------------------------------------------------------------- C6
\* the frames of the lines that carry `response`, in order
Forwarded(lines) ==
    FrameEach(SelectSeq(lines, CarriesResponse))

\* C6: a line with a true `done` is the last line ever read (no line after
\* it is delivered, whatever the backend still has to send); from then on
\* the stream holds no error frame, the frames yielded are those of the lines
\* read up to and including the `done` line, and the only thing left to
\* happen is writing that line's own frame and closing: a stream that ended
\* with the client still there has exactly these frames.
C6_StopAtDone ==
    \A r \in Reqs :
      \A i \in 1..pos[r] :
        DoneTrue(script[r][i]) =>
          /\ i = pos[r]
          /\ fault[r] = "none"
          /\ pc[r] \in {"yield_token", "closed", "cancelled"}
          /\ ErrorFrames(frames[r] \o held[r]) = <<>>
          /\ IsPrefix(frames[r] \o held[r],
                      Forwarded(SubSeq(script[r], 1, i)))
          /\ (pc[r] = "closed" /\ ~disconnected[r]) =>
                frames[r] = Forwarded(SubSeq(script[r], 1, i))

C6_Witness ==
    \E r \in Reqs :
      /\ script[r] = <<L_HELLO, L_BANG, L_WORLD>>
      /\ pos[r] = 2
      /\ pc[r] = "closed"
      /\ Len(frames[r]) = 2
      /\ ~disconnected[r]

\* ------------------------------------------------------------------- C7
\* C7: a request that has terminated (stream ended, client gone, or body
\* rejected) has no open backend connection.
C7_Released ==
    \A r \in Reqs :
      pc[r] \in {"closed", "cancelled", "rejected"} => conn[r] # "open"

C7_Witness ==
    \E r \in Reqs :
      /\ pc[r] = "cancelled"
      /\ disconnected[r]
      /\ conn[r] = "released"
      /\ Len(frames[r]) >= 1
      /\ pos[r] < Len(script[r])

\* ------------------------------------------------------------------- C8
\* C8 as claimed: a body that is a bare JSON string is accepted (200, event
\* stream) and normalized to the ChatMessage validate() builds from it.
C8_Claimed ==
    \A r \in Reqs :
      (pc[r] # "idle" /\ body[r].t = "str") =>
        /\ pc[r] # "rejected"
        /\ http[r].status = 200
        /\ message[r] = validate(body[r]).message

\* ------------------------------------------------------------------- C9
\* C9: for a body with a string `message`, every generation request sent to
\* the backend carries exactly that string as prompt and asks for streaming,
\* and once generate() has run there is such a request.
C9_PromptIsMessage ==
    \A r \in Reqs :
      (body[r].t = "obj" /\ body[r].message.t = "str") =>
        /\ \A i \in 1..Len(sent[r]) :
             /\ sent[r][i].prompt = body[r].message.v
             /\ sent[r][i].stream = TRUE
        /\ pc[r] \in {"reading", "yield_token", "yield_error", "closed"} =>
             Len(sent[r]) >= 1

C9_Witness ==
    \E r \in Reqs :
      /\ body[r] = Body(JStr(""))
      /\ Len(sent[r]) = 1
      /\ sent[r][1].prompt = ""
      /\ pc[r] = "reading"

\* ------------------------------------------------------------------ C10
\* C10: at most one frame is ever yielded and not yet written, and no line
\* is read while one is: whenever the generator is at the head of the loop,
\* everything it yielded has been written.
C10_NoBuffering ==
    \A r \in Reqs :
      /\ Len(held[r]) <= 1
      /\ pc[r] = "reading" => held[r] = <<>>

C10_Witness ==
    \E r \in Reqs :
      /\ pc[r] = "yield_token"
      /\ pos[r] = 2
      /\ Len(frames[r]) = 1
      /\ Len(held[r]) = 1
      /\ IsTokenFrame(held[r][1])

View(r) ==
    <<pc[r], body[r], http[r], message[r], sent[r], conn[r], status[r],
      script[r], pos[r], cur[r], held[r], frames[r], fault[r],
      disconnected[r]>>

\* the token frames the loop yields for the given lines, in order
YieldsFrame(line) ==
    line # L_EMPTY /\ json_loads(line) # JSONDecodeError
      /\ HasResponse(json_loads(line)) = "yes"
Yielded(lines) == FrameEach(SelectSeq(lines, YieldsFrame))

\* the token frames on the stream of r come from the lines r itself has
\* read, in order; an error frame on it comes from a fault of r itself
C12_Own ==
    \A r \in Reqs :
      LET mine == Yielded(SubSeq(script[r], 1, pos[r]))
      IN  /\ IsPrefix(TokenFrames(frames[r] \o held[r]), mine)
          /\ (pc[r] = "closed" /\ ~disconnected[r]) =>
                TokenFrames(frames[r]) = mine
          /\ ErrorFrames(frames[r] \o held[r]) # <<>> =>
                (fault[r] # "none"
                   /\ ErrorFrames(frames[r] \o held[r])
                        = <<ExceptFrame(fault[r])>>)

\* a step that changes anything of one request changes nothing of any other
C12_StepIsLocal ==
    \A r \in Reqs :
      View(r)' # View(r) => \A q \in Reqs \ {r} : View(q)' = View(q)

\* C12: with the requests' steps interleaved in any order, every stream
\* carries the frames derived from its own backend lines, in order, and no
\* step of one request (a line, a fault, a `done`, a disconnect) adds a
\* frame to, removes a frame from or closes the stream of another.
C12_Isolation == []C12_Own /\ [][C12_StepIsLocal]_vars

C12_Witness ==
    \E r, q \in Reqs :
      /\ r # q
      /\ script[r] = <<L_BAD, L_WORLD, L_NUM>>
      /\ fault[r] = "TypeError"
      /\ pc[r] = "closed"
      /\ script[q] = <<L_HELLO, L_BANG, L_WORLD>>
      /\ pc[q] = "closed"
      /\ ~disconnected[q]
      /\ frames[q] = <<Frame(json_loads(L_HELLO)), Frame(json_loads(L_BANG))>>

\* ------------------------------------------------------------------ C13
\* the message an error frame has to carry for the exception that ended the
\* try block
C13_Message(exc) ==
    CASE exc = "HTTPStatusError" -> "Error communicating with Ollama"
      [] exc \in {"ConnectError", "ReadError"} -> "Error connecting to Ollama"
      [] exc \in {"ConnectTimeout", "ReadTimeout"} ->
           "Error connecting to Ollama"
      [] exc \in {"TypeError", "AttributeError"} ->
           "An unexpected error occurred"
      [] OTHER -> "no error frame"

\* C13: every error frame yielded names the class of the failure behind it:
\* a failure status gives 'Error communicating with Ollama', a connection
\* failure or an interrupted read gives 'Error connecting to Ollama', a
\* connect or read timeout gives 'Error connecting to Ollama' as well, and a
\* fault of the loop body gives 'An unexpected error occurred'; a failure
\* status is always behind the first of these.
C13_ErrorClass ==
    \A r \in Reqs :
      /\ \A f \in Range(ErrorFrames(frames[r] \o held[r])) :
           f.data.error = C13_Message(fault[r])
      /\ (status[r] >= 400 /\ fault[r] # "none") =>
           fault[r] = "HTTPStatusError"

C13_Witness ==
    \E r \in Reqs :
      /\ fault[r] = "ReadTimeout"
      /\ pc[r] = "closed"
      /\ Len(frames[r]) >= 2
      /\ Last(frames[r]).data.error = "Error connecting to Ollama"

\* ------------------------------------------------------------------ C14
\* C14: a request sends at most one generation request to the backend in
\* its whole life, a connection exists only for a request that sent one, and
\* a request that has failed has sent exactly one and is past the point
\* where one is sent.
C14_SingleAttempt ==
    \A r \in Reqs :
      /\ Len(sent[r]) <= 1
      /\ conn[r] # "none" => Len(sent[r]) = 1
      /\ fault[r] # "none" =>
           (Len(sent[r]) = 1 /\ pc[r] \in {"yield_error", "closed", "cancelled"})

C14_Witness ==
    \E r \in Reqs :
      /\ fault[r] = "ConnectError"
      /\ pc[r] = "closed"
      /\ Len(sent[r]) = 1
      /\ conn[r] = "none"

\* ------------------------------------------------------------------ C15
\* the answers given so far are 200, made without a request to the backend,
\* and the health answer is the fixed payload
C15_Answers ==
    /\ \A p \in Paths :
         served[p] # NotServed =>
           /\ served[p].resp.status = 200
           /\ served[p].resp.backend_requests = 0
    /\ served["/api/health"] # NotServed =>
         served["/api/health"].resp.body
           = [status |-> "healthy", message |-> "Myra AI Assistant is running"]
    /\ served["/"] # NotServed =>
         served["/"].resp.media = "text/html; charset=utf-8"

\* a step that answers a GET leaves every chat request, its backend
\* connection and the generation requests sent as they are
C15_NoBackendContact ==
    served' # served => (sent' = sent /\ conn' = conn /\ pc' = pc)

\* C15: GET /api/health and GET / answer 200 whatever state the backend is
\* in (reachable, unreachable, failing) and whatever the chat requests are
\* doing, the health body is the fixed payload, and answering them sends
\* nothing to the backend.
C15_GetIndependentOfBackend == []C15_Answers /\ [][C15_NoBackendContact]_vars

C15_Witness ==
    /\ served["/api/health"] # NotServed
    /\ served["/api/health"].at = "unreachable"
    /\ served["/api/health"].resp.status = 200
    /\ served["/"] # NotServed
    /\ served["/"].at = "failing"
    /\ served["/"].resp.status = 200
    /\ \E r \in Reqs : fault[r] = "HTTPStatusError"

\* ------------------------------------------------------------------ C16
\* C16: the stream for a backend output and the stream for the same output
\* with the empty and non-JSON lines removed end with the same frames (and
\* the same fault, if any); and right after an empty or non-JSON line was
\* read, at whatever position, the generator is back at the head of the
\* loop: the stream is closed there only by the end of the output.
C16_JunkLinesAreNoOps ==
    /\ (pc[1] = "closed" /\ pc[2] = "closed") =>
         /\ script[2] = Filtered(script[1])
         /\ frames[1] = frames[2]
         /\ fault[1] = fault[2]
    /\ \A r \in {1, 2} :
         (pos[r] >= 1 /\ IsJunk(script[r][pos[r]])) =>
           \/ pc[r] = "reading"
           \/ /\ pc[r] = "closed"
              /\ pos[r] = Len(script[r])
              /\ ErrorFrames(frames[r]) = <<>>

C16_Witness ==
    /\ script[1] = <<L_HELLO, L_EMPTY, L_WORLD>>
    /\ script[2] = <<L_HELLO, L_WORLD>>
    /\ pc[1] = "closed"
    /\ pc[2] = "closed"
    /\ Len(frames[1]) = 2
    /\ frames[1] = frames[2]

\* ------------------------------------------------------------------ C17
\* a line that json.loads accepts and that is no JSON object
IsNonObject(line) == ~IsJunk(line) /\ json_loads(line).t # "obj"

C17_UnexpectedFrame == Frame(ErrorPayload("An unexpected error occurred"))

C18_Case(r) ==
    /\ status[r] = 200
    /\ \A i \in 1..Len(script[r]) :
         \/ IsJunk(script[r][i])
         \/ IsObject(script[r][i]) /\ ~DoneTrue(script[r][i])

\* such a stream, when it ends undisturbed, ends after the last line, with
\* the frames of its lines and no fault, hence no error frame
C18_CleanEnd ==
    \A r \in Reqs :
      (C18_Case(r) /\ pc[r] = "closed" /\ Undisturbed(r)) =>
        /\ pos[r] = Len(script[r])
        /\ fault[r] = "none"
        /\ frames[r] = Forwarded(script[r])
        /\ ErrorFrames(frames[r]) = <<>>

C18_Open(r) == pc[r] \in {"started", "reading", "yield_token", "yield_error"}
C18_Ended(r) == pc[r] \in {"closed", "cancelled"}

\* C18: from some point on no stream is open any more (a stream that was
\* opened is only left by being closed by the generator or cancelled by the
\* client's disconnect), and an output that ends without a true `done` and
\* without a fault closes the stream cleanly after its last line, with no
\* error frame.
C18_EventuallyCloses ==
    /\ []C18_CleanEnd
    /\ [][\A r \in Reqs : C18_Open(r) => (C18_Open(r)' \/ C18_Ended(r)')]_vars
    /\ <>[](\A r \in Reqs : ~C18_Open(r))

C18_Witness ==
    \E r \in Reqs :
      /\ script[r] = <<L_HELLO, L_BAD, L_NODONE>>
      /\ C18_Case(r)
      /\ pc[r] = "closed"
      /\ pos[r] = 3
      /\ fault[r] = "none"
      /\ Len(frames[r]) = 2

====
